---- MODULE Spec2Model ----
(***************************************************************************)
(* Scope guards of aliri_axum (src/aliri_axum/src/macros.rs).              *)
(*                                                                         *)
(* scope_guard! declares a guard type from one string literal or from a    *)
(* bracketed list of literals joined by ||.  The guard's policy lives in   *)
(* a static OnceCell and is built on first use by                          *)
(*   deny_all().or_allow(lit1.parse().unwrap()) ... .or_allow(litN...)     *)
(* and FromRequest::from_request hands the request and that policy to the  *)
(* crate's private from_request.                                           *)
(*                                                                         *)
(* Text is modelled character by character: a literal is a sequence of     *)
(* one-character strings, a scope token a non-empty sequence of            *)
(* characters, a Scope a sequence of tokens, a ScopePolicy a sequence of   *)
(* Scopes (its alternatives, in the order they were added).                *)
(***************************************************************************)
EXTENDS Naturals, Sequences, FiniteSets

VARIABLES decl, reqs, cell, th, built

vars == <<decl, reqs, cell, th, built>>

(***************************************************************************)
(* Bounds of the model.                                                    *)
(***************************************************************************)
NThreads == 2        \* concurrent request-handling tasks of the host
MaxAlts == 2         \* literals in one bracketed list
MaxDeclChars == 4    \* characters of all literals of one declaration
MaxScopeLen == 2     \* tokens of a presented scope

(***************************************************************************)
(* Characters.                                                             *)
(***************************************************************************)
Whitespace == {" "}
InvalidTokenChars == {"\"", "\\"}

(***************************************************************************)
(* oauth2::Scope and oauth2::ScopePolicy (crate aliri_oauth2).             *)
(***************************************************************************)
RECURSIVE SplitWhitespace(_, _, _)
SplitWhitespace(text, cur, out) ==
    IF text = <<>>
    THEN IF cur = <<>> THEN out ELSE Append(out, cur)
    ELSE IF Head(text) \in Whitespace
         THEN SplitWhitespace(Tail(text), <<>>,
                              IF cur = <<>> THEN out ELSE Append(out, cur))
         ELSE SplitWhitespace(Tail(text), Append(cur, Head(text)), out)

ValidToken(tok) ==
    /\ tok # <<>>
    /\ \A i \in 1..Len(tok) : tok[i] \notin Whitespace \cup InvalidTokenChars

\* str::parse::<Scope>(): Ok(scope) or Err(MalformedToken)
Parse(text) ==
    LET toks == SplitWhitespace(text, <<>>, <<>>)
    IN  IF \A i \in 1..Len(toks) : ValidToken(toks[i])
        THEN [ok |-> TRUE, scope |-> toks]
        ELSE [ok |-> FALSE, scope |-> <<>>]

Contains(scope, tok) == \E i \in 1..Len(scope) : scope[i] = tok

Satisfies_ExactLength(presented, requirement) ==
    /\ Len(presented) = Len(requirement)
    /\ \A i \in 1..Len(requirement) : Contains(presented, requirement[i])

Satisfies(presented, requirement) ==
    \A i \in 1..Len(requirement) : Contains(presented, requirement[i])

deny_all == <<>>

allow_all == << <<>> >>

or_allow(policy, requirement) == Append(policy, requirement)

RECURSIVE Evaluate(_, _)
Evaluate(policy, presented) ==
    IF policy = <<>> THEN "Denied"
    ELSE IF Satisfies(presented, Head(policy)) THEN "Allowed"
         ELSE Evaluate(Tail(policy), presented)

(***************************************************************************)
(* aliri_axum::__private::from_request: the claims are taken from the      *)
(* request's extensions and their scope is evaluated against the policy.   *)
(***************************************************************************)
NoClaims == [present |-> FALSE, scope |-> <<>>]

Claims(scope) == [present |-> TRUE, scope |-> scope]

private_from_request_Swapped(claims, policy) ==
    IF ~claims.present THEN "InsufficientScopes"
    ELSE IF Evaluate(policy, claims.scope) = "Allowed" THEN "Ok"
         ELSE "MissingClaims"

private_from_request(claims, policy) ==
    IF ~claims.present THEN "MissingClaims"
    ELSE IF Evaluate(policy, claims.scope) = "Allowed" THEN "Ok"
         ELSE "InsufficientScopes"

(***************************************************************************)
(* scope_guard!: the macro's input and what its arms make of it.           *)
(***************************************************************************)
Bare(lit) == [kind |-> "bare", lits |-> <<lit>>]

List(lits) == [kind |-> "list", lits |-> lits]

\* a bare literal treated as one alternative per token
MacroAlternatives_SplitBare(input) ==
    IF input.kind = "bare"
    THEN LET toks == SplitWhitespace(input.lits[1], <<>>, <<>>)
         IN  IF Len(toks) > 1 THEN toks ELSE input.lits
    ELSE input.lits

\* $scope:literal => [$scope];  [$($scope:literal)||*] => the literals
MacroAlternatives(input) == input.lits

\* the cell every caller shares is per thread
PolicyCellOf_PerThread(g, t) == <<g, t>>

\* one cell for all guard types
PolicyCellOf_Shared(g, t) == "POLICY"

\* static POLICY: one cell per guard type, shared by all callers
PolicyCellOf(g, t) == g

EmptyCell == [state |-> "uninit", value |-> <<>>]

\* the initializer runs whatever the cell holds
GetOrInitPath_Reinit(c) ==
    IF c.state = "running" THEN "wait" ELSE "init"

\* OnceCell::get_or_init: read, initialize, or wait for the initializer
GetOrInitPath(c) ==
    IF c.state = "init" THEN "get"
    ELSE IF c.state = "uninit" THEN "init"
    ELSE "wait"

\* the chain starts from the policy that allows everything
PolicyBase_AllowAll == allow_all

\* ScopePolicy::deny_all(), the start of the chain
PolicyBase == deny_all

\* the chain restarts from deny_all at every literal
ChainStep_Restart(acc, lit) == or_allow(deny_all, Parse(lit).scope)

\* the new alternative takes the place of the last one
ChainStep_ReplaceLast(acc, lit) ==
    IF acc = <<>> THEN or_allow(acc, Parse(lit).scope)
    ELSE or_allow(SubSeq(acc, 1, Len(acc) - 1), Parse(lit).scope)

\* .or_allow($scope.parse().unwrap())
ChainStep(acc, lit) == or_allow(acc, Parse(lit).scope)

(***************************************************************************)
(* Inputs.                                                                 *)
(***************************************************************************)
RECURSIVE SeqsOfLen(_, _)
SeqsOfLen(S, n) ==
    IF n = 0 THEN {<<>>}
    ELSE {Append(s, x) : s \in SeqsOfLen(S, n - 1), x \in S}

SeqsUpTo(S, n) == UNION {SeqsOfLen(S, k) : k \in 0..n}

\* the tests' literals and requests
admin == <<"a", "d", "m", "i", "n">>

testing == <<"t", "e", "s", "t", "i", "n", "g">>

testing2 == testing \o <<"2">>

AdminOnly == Bare(admin)

Testing == List(<<testing, testing2>>)

TestingAdmin == List(<<testing \o <<" ">> \o admin>>)

\* a literal holding a character no scope token may hold
Malformed == Bare(<<"a", "d", "\"", "m", "i", "n">>)

HostInputs == {AdminOnly, Testing, TestingAdmin, Malformed}

HostGuards == {"G", "H"}

HostRequests ==
    {NoClaims, Claims(<<>>), Claims(<<admin>>), Claims(<<testing>>),
     Claims(<<testing2>>), Claims(<<admin, testing>>)}

\* every declaration of at most MaxAlts literals and MaxDeclChars characters
AnyChars == {"a", "b", " ", "\""}

AnyTokens == {<<"a">>, <<"b">>}

RECURSIVE LiteralLists(_, _)
LiteralLists(k, n) ==
    IF k = 0 THEN {<<>>}
    ELSE {<<>>} \cup
         UNION {{<<l>> \o d : d \in LiteralLists(k - 1, n - Len(l))} :
                l \in SeqsUpTo(AnyChars, n)}

AnyInputs ==
    {Bare(l) : l \in SeqsUpTo(AnyChars, MaxDeclChars)} \cup
    {List(d) : d \in LiteralLists(MaxAlts, MaxDeclChars)}

AnyRequests ==
    {NoClaims} \cup {Claims(s) : s \in SeqsUpTo(AnyTokens, MaxScopeLen)}

(***************************************************************************)
(* State.                                                                  *)
(***************************************************************************)
Idle == [pc |-> "idle", g |-> "", acc |-> <<>>, i |-> 0, pol |-> <<>>,
         claims |-> NoClaims, result |-> ""]

Guards == DOMAIN decl

Threads == DOMAIN th

Alternatives(g) == MacroAlternatives(decl[g])

CellOf(t) == PolicyCellOf(th[t].g, t)

InitWith(d, n, r) ==
    /\ decl = d
    /\ reqs = r
    /\ th = [t \in 1..n |-> Idle]
    /\ cell = [k \in {PolicyCellOf(g, t) : g \in DOMAIN d, t \in 1..n}
                 |-> EmptyCell]
    /\ built = [g \in DOMAIN d |-> 0]

\* the host: several guards, several tasks, the tests' requests
Init == \E d \in [HostGuards -> HostInputs] : InitWith(d, NThreads, HostRequests)

\* one guard with any declaration, one task, any request
InitAny == \E inp \in AnyInputs : InitWith([g \in {"G"} |-> inp], 1, AnyRequests)

(***************************************************************************)
(* Actions.                                                                *)
(***************************************************************************)
\* from_request is called for guard g; its argument scope_policy() comes first
Call(t) ==
    /\ th[t].pc = "idle"
    /\ \E g \in Guards : th' = [th EXCEPT ![t] = [Idle EXCEPT !.pc = "scope_policy", !.g = g]]
    /\ UNCHANGED <<decl, reqs, cell, built>>

\* get_or_init on an initialized cell returns the stored policy
GetPolicy(t) ==
    /\ th[t].pc = "scope_policy"
    /\ GetOrInitPath(cell[CellOf(t)]) = "get"
    /\ th' = [th EXCEPT ![t].pc = "from_request", ![t].pol = cell[CellOf(t)].value]
    /\ UNCHANGED <<decl, reqs, cell, built>>

\* get_or_init on an uninitialized cell runs the closure: deny_all()
StartInit(t) ==
    /\ th[t].pc = "scope_policy"
    /\ GetOrInitPath(cell[CellOf(t)]) = "init"
    /\ cell' = [cell EXCEPT ![CellOf(t)] = [state |-> "running", value |-> <<>>]]
    /\ th' = [th EXCEPT ![t].pc = "closure", ![t].acc = PolicyBase, ![t].i = 1]
    /\ UNCHANGED <<decl, reqs, built>>

\* get_or_init while another caller runs the closure: the caller blocks
Park(t) ==
    /\ th[t].pc = "scope_policy"
    /\ GetOrInitPath(cell[CellOf(t)]) = "wait"
    /\ th' = [th EXCEPT ![t].pc = "parked"]
    /\ UNCHANGED <<decl, reqs, cell, built>>

\* the initializer has finished or panicked: the blocked caller looks again
Unpark(t) ==
    /\ th[t].pc = "parked"
    /\ cell[CellOf(t)].state # "running"
    /\ th' = [th EXCEPT ![t].pc = "scope_policy"]
    /\ UNCHANGED <<decl, reqs, cell, built>>

\* .or_allow($scope.parse().unwrap()) with a literal that parses
OrAllowStep(t) ==
    /\ th[t].pc = "closure"
    /\ th[t].i <= Len(Alternatives(th[t].g))
    /\ Parse(Alternatives(th[t].g)[th[t].i]).ok
    /\ th' = [th EXCEPT ![t].acc = ChainStep(@, Alternatives(th[t].g)[th[t].i]),
                        ![t].i = @ + 1]
    /\ UNCHANGED <<decl, reqs, cell, built>>

\* .parse().unwrap() on a malformed literal panics: the cell stays
\* uninitialized and the panic unwinds through from_request
UnwrapPanic(t) ==
    /\ th[t].pc = "closure"
    /\ th[t].i <= Len(Alternatives(th[t].g))
    /\ ~Parse(Alternatives(th[t].g)[th[t].i]).ok
    /\ cell' = [cell EXCEPT ![CellOf(t)] = EmptyCell]
    /\ th' = [th EXCEPT ![t] = [Idle EXCEPT !.pc = "panicked", !.g = th[t].g]]
    /\ UNCHANGED <<decl, reqs, built>>

\* the closure returns: the cell stores the policy and hands out a reference
InitDone(t) ==
    /\ th[t].pc = "closure"
    /\ th[t].i > Len(Alternatives(th[t].g))
    /\ cell' = [cell EXCEPT ![CellOf(t)] = [state |-> "init", value |-> th[t].acc]]
    /\ built' = [built EXCEPT ![th[t].g] = @ + 1]
    /\ th' = [th EXCEPT ![t].pc = "from_request", ![t].pol = th[t].acc,
                        ![t].acc = <<>>, ![t].i = 0]
    /\ UNCHANGED <<decl, reqs>>

\* __private::from_request(req, policy).map(Self)
CheckRequest(t) ==
    /\ th[t].pc = "from_request"
    /\ \E c \in reqs :
         th' = [th EXCEPT ![t].pc = "returned", ![t].claims = c, ![t].pol = <<>>,
                          ![t].result = private_from_request(c, th[t].pol)]
    /\ UNCHANGED <<decl, reqs, cell, built>>

\* the task is done with the request and takes the next one
Finish(t) ==
    /\ th[t].pc \in {"returned", "panicked"}
    /\ th' = [th EXCEPT ![t] = Idle]
    /\ UNCHANGED <<decl, reqs, cell, built>>

Next ==
    \/ \E t \in Threads : Call(t)
    \/ \E t \in Threads : GetPolicy(t)
    \/ \E t \in Threads : StartInit(t)
    \/ \E t \in Threads : Park(t)
    \/ \E t \in Threads : Unpark(t)
    \/ \E t \in Threads : OrAllowStep(t)
    \/ \E t \in Threads : UnwrapPanic(t)
    \/ \E t \in Threads : InitDone(t)
    \/ \E t \in Threads : CheckRequest(t)
    \/ \E t \in Threads : Finish(t)

\* a single task never finds the cell being initialized by another
NextAny ==
    \/ \E t \in Threads : Call(t)
    \/ \E t \in Threads : GetPolicy(t)
    \/ \E t \in Threads : StartInit(t)
    \/ \E t \in Threads : OrAllowStep(t)
    \/ \E t \in Threads : UnwrapPanic(t)
    \/ \E t \in Threads : InitDone(t)
    \/ \E t \in Threads : CheckRequest(t)
    \/ \E t \in Threads : Finish(t)

Spec == Init /\ [][Next]_vars

SpecAny == InitAny /\ [][NextAny]_vars

(***************************************************************************)
(* What the claims speak of, stated over sets.                             *)
(***************************************************************************)
TokenSet(scope) == {scope[i] : i \in 1..Len(scope)}

\* the tokens of a literal: its maximal runs of characters between whitespace,
\* each from a position that starts a run to the position that ends it
LiteralTokens(lit) ==
    LET NotSpace(k) == lit[k] \notin Whitespace
        Starts == {i \in 1..Len(lit) : NotSpace(i) /\ (i = 1 \/ ~NotSpace(i - 1))}
        EndOf(i) == CHOOSE j \in i..Len(lit) :
                        /\ \A k \in i..j : NotSpace(k)
                        /\ (j = Len(lit) \/ ~NotSpace(j + 1))
    IN  {SubSeq(lit, i, EndOf(i)) : i \in Starts}

\* some declared alternative of guard g has all of its tokens in scope x
SomeAlternativeMet(g, x) ==
    \E i \in 1..Len(decl[g].lits) : LiteralTokens(decl[g].lits[i]) \subseteq TokenSet(x)

\* policy is what the declaration of guard g describes, alternative by alternative
PolicyOfDeclaration(policy, g) ==
    /\ Len(policy) = Len(decl[g].lits)
    /\ \A i \in 1..Len(policy) : TokenSet(policy[i]) = LiteralTokens(decl[g].lits[i])

PresentedScopes == {c.scope : c \in {r \in reqs : r.present}}

Checked(t) == th[t].pc = "returned" /\ th[t].claims.present

(***************************************************************************)
(* C1: the check allows a request exactly when at least one declared       *)
(* alternative has all of its tokens in the presented scope, whatever the  *)
(* order of the presented tokens; part of an alternative is not enough.    *)
(***************************************************************************)
C1_AllowedIffSomeAlternativeMet ==
    \A t \in Threads :
        Checked(t) =>
            (th[t].result = "Ok" <=> SomeAlternativeMet(th[t].g, th[t].claims.scope))

\* a two-token alternative met by a scope that presents its tokens in the
\* opposite order
C1_Witness ==
    \E t \in Threads :
        /\ Checked(t)
        /\ decl[th[t].g] = List(<< <<"a", " ", "b">> >>)
        /\ th[t].claims.scope = << <<"b">>, <<"a">> >>
        /\ th[t].result = "Ok"

(***************************************************************************)
(* C2: a request that carries no claims is rejected with MissingClaims,    *)
(* whatever the guard's policy.                                            *)
(***************************************************************************)
C2_NoClaimsIsMissingClaims ==
    \A t \in Threads :
        (th[t].pc = "returned" /\ ~th[t].claims.present) => th[t].result = "MissingClaims"

C2_Witness ==
    \E t \in Threads :
        /\ th[t].pc = "returned"
        /\ ~th[t].claims.present
        /\ decl[th[t].g] = Testing
        /\ th[t].result = "MissingClaims"

(***************************************************************************)
(* C3: a request whose claims are present but whose scope meets no         *)
(* alternative of the guard's policy is rejected with InsufficientScopes.  *)
(***************************************************************************)
C3_UnmetIsInsufficientScopes ==
    \A t \in Threads :
        (Checked(t) /\ ~SomeAlternativeMet(th[t].g, th[t].claims.scope))
            => th[t].result = "InsufficientScopes"

\* claims with an empty scope against a guard that requires a token
C3_Witness ==
    \E t \in Threads :
        /\ Checked(t)
        /\ th[t].claims.scope = <<>>
        /\ decl[th[t].g] = Bare(<<"a">>)
        /\ th[t].result = "InsufficientScopes"

(***************************************************************************)
(* C4: concurrent first use constructs a guard's policy once; every caller *)
(* that gets a policy from scope_policy() gets the stored, fully built one.*)
(***************************************************************************)
C4_ConstructedOnceAndShared ==
    \A g \in Guards :
        /\ built[g] <= 1
        /\ Cardinality({t \in Threads : th[t].pc = "closure" /\ th[t].g = g}) <= 1
        /\ \A t \in Threads :
             (th[t].pc = "from_request" /\ th[t].g = g) =>
                /\ built[g] = 1
                /\ Len(th[t].pol) = Len(decl[g].lits)
                /\ cell[PolicyCellOf(g, t)] = [state |-> "init", value |-> th[t].pol]
        /\ \A t1, t2 \in Threads :
             (th[t1].pc = "from_request" /\ th[t2].pc = "from_request"
                /\ th[t1].g = g /\ th[t2].g = g) => th[t1].pol = th[t2].pol

\* two callers hold the two-alternative policy of the same guard at once
C4_Witness ==
    \E t1, t2 \in Threads :
        /\ t1 # t2
        /\ th[t1].pc = "from_request" /\ th[t2].pc = "from_request"
        /\ th[t1].g = th[t2].g
        /\ decl[th[t1].g] = Testing
        /\ Len(th[t1].pol) = 2
        /\ built[th[t1].g] = 1

(***************************************************************************)
(* C5: checking a request never ends in a parsing failure; it ends in an   *)
(* allow or a deny outcome.                                                *)
(***************************************************************************)
C5_CheckNeverEndsInParseFailure ==
    \A t \in Threads : th[t].pc # "panicked"

(***************************************************************************)
(* C6: adding an alternative r to a policy P keeps every allow of P and    *)
(* allows every scope that holds all tokens of r.                          *)
(***************************************************************************)
C6_OrAllowWidens ==
    [][\A t \in Threads :
         (th[t].pc = "closure" /\ th'[t].pc = "closure" /\ th'[t].i = th[t].i + 1) =>
            \A x \in PresentedScopes :
                (\/ Evaluate(th[t].acc, x) = "Allowed"
                 \/ LiteralTokens(decl[th[t].g].lits[th[t].i]) \subseteq TokenSet(x))
                    => Evaluate(th'[t].acc, x) = "Allowed"]_vars

\* a second alternative has been added to a policy whose first alternative
\* allows a scope the second does not
C6_Witness ==
    \E t \in Threads :
        /\ th[t].pc = "closure"
        /\ Len(th[t].acc) = 2
        /\ \E x \in PresentedScopes :
             /\ TokenSet(th[t].acc[1]) \subseteq TokenSet(x)
             /\ ~(TokenSet(th[t].acc[2]) \subseteq TokenSet(x))
             /\ Evaluate(th[t].acc, x) = "Allowed"

(***************************************************************************)
(* C7: a guard declared with an empty bracketed list builds the policy     *)
(* with zero alternatives, which denies every presented scope.             *)
(***************************************************************************)
C7_EmptyListDeniesAll ==
    /\ \A t \in Threads :
         (Checked(t) /\ decl[th[t].g] = List(<<>>)) => th[t].result = "InsufficientScopes"
    /\ \A g \in Guards, t \in Threads :
         (decl[g] = List(<<>>) /\ cell[PolicyCellOf(g, t)].state = "init") =>
            \A x \in PresentedScopes :
                Evaluate(cell[PolicyCellOf(g, t)].value, x) = "Denied"

\* the scope holding every token, denied by the empty list
C7_Witness ==
    \E t \in Threads :
        /\ Checked(t)
        /\ decl[th[t].g] = List(<<>>)
        /\ TokenSet(th[t].claims.scope) = AnyTokens
        /\ th[t].result = "InsufficientScopes"

(***************************************************************************)
(* C8: if a guard's policy allows scope x (a check with x returned Ok) it  *)
(* allows every scope y that holds all tokens of x.                        *)
(***************************************************************************)
C8_ExtraScopesNeverReduce ==
    \A t \in Threads :
        (Checked(t) /\ th[t].result = "Ok") =>
            \A y \in PresentedScopes :
                TokenSet(th[t].claims.scope) \subseteq TokenSet(y) =>
                    private_from_request(Claims(y), cell[PolicyCellOf(th[t].g, t)].value) = "Ok"

\* a one-token guard accepts a scope that holds that token and another one
C8_Witness ==
    \E t \in Threads :
        /\ Checked(t)
        /\ decl[th[t].g] = Bare(<<"a">>)
        /\ th[t].claims.scope = << <<"a">>, <<"b">> >>
        /\ th[t].result = "Ok"
        /\ cell[PolicyCellOf(th[t].g, t)].state = "init"

(***************************************************************************)
(* C9: an initialized policy cell never changes again: no request check    *)
(* modifies it, re-initializes it or empties it.                           *)
(***************************************************************************)
C9_InitializedPolicyIsFrozen ==
    [][\A k \in DOMAIN cell : cell[k].state = "init" => cell'[k] = cell[k]]_vars

\* the policy is initialized and has served an allowed and a rejected request
C9_Witness ==
    \E t1, t2 \in Threads :
        /\ th[t1].pc = "returned" /\ th[t2].pc = "returned"
        /\ th[t1].g = th[t2].g
        /\ th[t1].result = "Ok" /\ th[t2].result = "MissingClaims"
        /\ cell[PolicyCellOf(th[t1].g, t1)].state = "init"
        /\ PolicyOfDeclaration(cell[PolicyCellOf(th[t1].g, t1)].value, th[t1].g)

(***************************************************************************)
(* C10: every guard has its own policy cell: an initialized cell of guard  *)
(* g holds the policy g declares, and a check for g decides by the         *)
(* alternatives declared for g, whatever other guards are initialized or   *)
(* checked meanwhile.                                                      *)
(***************************************************************************)
C10_GuardsAreIndependent ==
    /\ \A g \in Guards, t \in Threads :
         cell[PolicyCellOf(g, t)].state = "init" =>
            PolicyOfDeclaration(cell[PolicyCellOf(g, t)].value, g)
    /\ \A t \in Threads :
         th[t].pc = "from_request" => PolicyOfDeclaration(th[t].pol, th[t].g)
    /\ \A t \in Threads :
         Checked(t) =>
            (th[t].result = "Ok" <=> SomeAlternativeMet(th[t].g, th[t].claims.scope))

\* two guards with different policies, both initialized, decide the same
\* request differently
C10_Witness ==
    \E t1, t2 \in Threads :
        /\ Checked(t1) /\ Checked(t2)
        /\ th[t1].g # th[t2].g
        /\ decl[th[t1].g] # decl[th[t2].g]
        /\ th[t1].claims = th[t2].claims
        /\ th[t1].result = "Ok" /\ th[t2].result = "InsufficientScopes"
        /\ \A g \in Guards : cell[PolicyCellOf(g, t1)].state = "init"

====
